---- MODULE Spec2Model ----
(***************************************************************************)
(* A model of src/src/service/totp.js: the TOTP class (constructor,        *)
(* generate, generateHOTP, verify, getRemainingSeconds) and the byte-level *)
(* stack under it (hmac, sha1, base32Decode, intToBytes, rotateLeft,       *)
(* add32).                                                                 *)
(*                                                                         *)
(* Representation.                                                         *)
(*   - A JavaScript string is a sequence of one-character strings.         *)
(*   - A Uint8Array is a sequence of integers in 0..255; JavaScript index  *)
(*     i is index i + 1 here.                                              *)
(*   - A 32-bit word (what >>> 0, getUint32 and setUint32 produce and      *)
(*     consume) is the pair <<hi, lo>> of its two 16-bit halves, each in   *)
(*     0..65535: the value is hi * 65536 + lo.  JavaScript's bitwise       *)
(*     operators work on the 32-bit two's complement pattern, which is     *)
(*     exactly this pair.                                                  *)
(*   - A JavaScript integer-valued number that may exceed 32 bits (the     *)
(*     counter handed to intToBytes) is the pair <<hi, lo>> with           *)
(*     0 <= lo < 2^24 and value hi * 2^24 + lo, hi of either sign.         *)
(***************************************************************************)
EXTENDS Integers, Sequences, FiniteSets, TLC

(***************************************************************************)
(* Bitwise operators on small non-negative integers, from nibble tables.    *)
(***************************************************************************)
\* a ^ b on 4-bit values: XorNibble[a + 1][b + 1].
XorNibble ==
    << << 0,  1,  2,  3,  4,  5,  6,  7,  8,  9, 10, 11, 12, 13, 14, 15>>,
       << 1,  0,  3,  2,  5,  4,  7,  6,  9,  8, 11, 10, 13, 12, 15, 14>>,
       << 2,  3,  0,  1,  6,  7,  4,  5, 10, 11,  8,  9, 14, 15, 12, 13>>,
       << 3,  2,  1,  0,  7,  6,  5,  4, 11, 10,  9,  8, 15, 14, 13, 12>>,
       << 4,  5,  6,  7,  0,  1,  2,  3, 12, 13, 14, 15,  8,  9, 10, 11>>,
       << 5,  4,  7,  6,  1,  0,  3,  2, 13, 12, 15, 14,  9,  8, 11, 10>>,
       << 6,  7,  4,  5,  2,  3,  0,  1, 14, 15, 12, 13, 10, 11,  8,  9>>,
       << 7,  6,  5,  4,  3,  2,  1,  0, 15, 14, 13, 12, 11, 10,  9,  8>>,
       << 8,  9, 10, 11, 12, 13, 14, 15,  0,  1,  2,  3,  4,  5,  6,  7>>,
       << 9,  8, 11, 10, 13, 12, 15, 14,  1,  0,  3,  2,  5,  4,  7,  6>>,
       <<10, 11,  8,  9, 14, 15, 12, 13,  2,  3,  0,  1,  6,  7,  4,  5>>,
       <<11, 10,  9,  8, 15, 14, 13, 12,  3,  2,  1,  0,  7,  6,  5,  4>>,
       <<12, 13, 14, 15,  8,  9, 10, 11,  4,  5,  6,  7,  0,  1,  2,  3>>,
       <<13, 12, 15, 14,  9,  8, 11, 10,  5,  4,  7,  6,  1,  0,  3,  2>>,
       <<14, 15, 12, 13, 10, 11,  8,  9,  6,  7,  4,  5,  2,  3,  0,  1>>,
       <<15, 14, 13, 12, 11, 10,  9,  8,  7,  6,  5,  4,  3,  2,  1,  0>> >>

\* a & b on 4-bit values: AndNibble[a + 1][b + 1].
AndNibble ==
    << << 0,  0,  0,  0,  0,  0,  0,  0,  0,  0,  0,  0,  0,  0,  0,  0>>,
       << 0,  1,  0,  1,  0,  1,  0,  1,  0,  1,  0,  1,  0,  1,  0,  1>>,
       << 0,  0,  2,  2,  0,  0,  2,  2,  0,  0,  2,  2,  0,  0,  2,  2>>,
       << 0,  1,  2,  3,  0,  1,  2,  3,  0,  1,  2,  3,  0,  1,  2,  3>>,
       << 0,  0,  0,  0,  4,  4,  4,  4,  0,  0,  0,  0,  4,  4,  4,  4>>,
       << 0,  1,  0,  1,  4,  5,  4,  5,  0,  1,  0,  1,  4,  5,  4,  5>>,
       << 0,  0,  2,  2,  4,  4,  6,  6,  0,  0,  2,  2,  4,  4,  6,  6>>,
       << 0,  1,  2,  3,  4,  5,  6,  7,  0,  1,  2,  3,  4,  5,  6,  7>>,
       << 0,  0,  0,  0,  0,  0,  0,  0,  8,  8,  8,  8,  8,  8,  8,  8>>,
       << 0,  1,  0,  1,  0,  1,  0,  1,  8,  9,  8,  9,  8,  9,  8,  9>>,
       << 0,  0,  2,  2,  0,  0,  2,  2,  8,  8, 10, 10,  8,  8, 10, 10>>,
       << 0,  1,  2,  3,  0,  1,  2,  3,  8,  9, 10, 11,  8,  9, 10, 11>>,
       << 0,  0,  0,  0,  4,  4,  4,  4,  8,  8,  8,  8, 12, 12, 12, 12>>,
       << 0,  1,  0,  1,  4,  5,  4,  5,  8,  9,  8,  9, 12, 13, 12, 13>>,
       << 0,  0,  2,  2,  4,  4,  6,  6,  8,  8, 10, 10, 12, 12, 14, 14>>,
       << 0,  1,  2,  3,  4,  5,  6,  7,  8,  9, 10, 11, 12, 13, 14, 15>> >>

\* a | b on 4-bit values: OrNibble[a + 1][b + 1].
OrNibble ==
    << << 0,  1,  2,  3,  4,  5,  6,  7,  8,  9, 10, 11, 12, 13, 14, 15>>,
       << 1,  1,  3,  3,  5,  5,  7,  7,  9,  9, 11, 11, 13, 13, 15, 15>>,
       << 2,  3,  2,  3,  6,  7,  6,  7, 10, 11, 10, 11, 14, 15, 14, 15>>,
       << 3,  3,  3,  3,  7,  7,  7,  7, 11, 11, 11, 11, 15, 15, 15, 15>>,
       << 4,  5,  6,  7,  4,  5,  6,  7, 12, 13, 14, 15, 12, 13, 14, 15>>,
       << 5,  5,  7,  7,  5,  5,  7,  7, 13, 13, 15, 15, 13, 13, 15, 15>>,
       << 6,  7,  6,  7,  6,  7,  6,  7, 14, 15, 14, 15, 14, 15, 14, 15>>,
       << 7,  7,  7,  7,  7,  7,  7,  7, 15, 15, 15, 15, 15, 15, 15, 15>>,
       << 8,  9, 10, 11, 12, 13, 14, 15,  8,  9, 10, 11, 12, 13, 14, 15>>,
       << 9,  9, 11, 11, 13, 13, 15, 15,  9,  9, 11, 11, 13, 13, 15, 15>>,
       <<10, 11, 10, 11, 14, 15, 14, 15, 10, 11, 10, 11, 14, 15, 14, 15>>,
       <<11, 11, 11, 11, 15, 15, 15, 15, 11, 11, 11, 11, 15, 15, 15, 15>>,
       <<12, 13, 14, 15, 12, 13, 14, 15, 12, 13, 14, 15, 12, 13, 14, 15>>,
       <<13, 13, 15, 15, 13, 13, 15, 15, 13, 13, 15, 15, 13, 13, 15, 15>>,
       <<14, 15, 14, 15, 14, 15, 14, 15, 14, 15, 14, 15, 14, 15, 14, 15>>,
       <<15, 15, 15, 15, 15, 15, 15, 15, 15, 15, 15, 15, 15, 15, 15, 15>> >>

\* The bitwise operator with nibble table T on 16-bit halves, nibble by nibble.
Bitwise16(T, p, q) ==
      (T[(p \div 4096) + 1][(q \div 4096) + 1] * 4096)
    + (T[((p \div 256) % 16) + 1][((q \div 256) % 16) + 1] * 256)
    + (T[((p \div 16) % 16) + 1][((q \div 16) % 16) + 1] * 16)
    + T[(p % 16) + 1][(q % 16) + 1]

\* ^ on 8-bit values (oKeyPad[i] = key[i] ^ 0x5c).
Xor8(p, q) ==
    (XorNibble[(p \div 16) + 1][(q \div 16) + 1] * 16)
        + XorNibble[(p % 16) + 1][(q % 16) + 1]

Xor16(p, q) == Bitwise16(XorNibble, p, q)

And16(p, q) == Bitwise16(AndNibble, p, q)

Or16(p, q) == Bitwise16(OrNibble, p, q)

Not16(p) == 65535 - p

(***************************************************************************)
(* 32-bit words: a ^ b, a & b, a | b, ~a.  The operations on words are     *)
(* functions: a function is applied to the values of its arguments, as a   *)
(* JavaScript call is.                                                     *)
(***************************************************************************)
Word == Nat \X Nat

Words == Seq(Word)

Bytes == Seq(Nat)

String == Seq(STRING)

Xor32[a \in Word, b \in Word] == <<Xor16(a[1], b[1]), Xor16(a[2], b[2])>>

And32[a \in Word, b \in Word] == <<And16(a[1], b[1]), And16(a[2], b[2])>>

Or32[a \in Word, b \in Word] == <<Or16(a[1], b[1]), Or16(a[2], b[2])>>

Not32[a \in Word] == <<Not16(a[1]), Not16(a[2])>>

Pow2(n) == 2 ^ n

\* rotateLeft(value, amount): ((value << amount) | (value >>> (32 - amount))) >>> 0
\* for 0 < amount < 32.
rotateLeft[value \in Word, amount \in 1..31] ==
    LET swap == amount >= 16
        n == IF swap THEN amount - 16 ELSE amount
        hi == IF swap THEN value[2] ELSE value[1]
        lo == IF swap THEN value[1] ELSE value[2]
    IN  << ((hi * Pow2(n)) % 65536) + (lo \div Pow2(16 - n)),
           ((lo * Pow2(n)) % 65536) + (hi \div Pow2(16 - n)) >>

\* add32(a, b): (a + b) >>> 0
add32[a \in Word, b \in Word] ==
    LET lo == a[2] + b[2]
        hi == a[1] + b[1] + (lo \div 65536)
    IN  <<hi % 65536, lo % 65536>>

\* (value << n) on a 32-bit word, 0 <= n < 32: the bits shifted past bit 31
\* are lost.
ShiftLeft32[value \in Word, n \in 0..31] ==
    IF n >= 16
    THEN <<(value[2] * Pow2(n - 16)) % 65536, 0>>
    ELSE << ((value[1] * Pow2(n)) % 65536) + (value[2] \div Pow2(16 - n)),
            (value[2] * Pow2(n)) % 65536 >>

\* (value >>> n) on a 32-bit word, 0 <= n < 16.
ShiftRightU32[value \in Word, n \in 0..15] ==
    << value[1] \div Pow2(n),
       ((value[1] % Pow2(n)) * Pow2(16 - n)) + (value[2] \div Pow2(n)) >>

\* DataView.getUint32(offset, false) on a byte sequence (offset 0-based).
getUint32(bytes, offset) ==
    << (bytes[offset + 1] * 256) + bytes[offset + 2],
       (bytes[offset + 3] * 256) + bytes[offset + 4] >>

\* The four bytes DataView.setUint32(_, word, false) writes.
wordBytes(word) ==
    << word[1] \div 256, word[1] % 256, word[2] \div 256, word[2] % 256 >>

Zeros(n) == [i \in 1..n |-> 0]

(***************************************************************************)
(* sha1(data)                                                              *)
(***************************************************************************)
H0 == << <<26437, 8961>>, <<61389, 43913>>, <<39098, 56574>>,
         <<4146, 21622>>, <<50130, 57840>> >>

\* paddedData: data, 0x80, zeros, and the bit length ml written by
\* setUint32 into the last four bytes (the four bytes before them stay 0).
sha1Pad[data \in Bytes] ==
    LET len == Len(data)
        ml == len * 8
        total == ((len + 9 + 63) \div 64) * 64
    IN  data \o <<128>> \o Zeros(total - len - 5)
             \o wordBytes(<<(ml \div 65536) % 65536, ml % 65536>>)

\* w[16..79]: w[i] = rotateLeft(w[i-3] ^ w[i-8] ^ w[i-14] ^ w[i-16], 1)
\* (w is 1-based here: w[i] of the code is w[i + 1]).
sha1Extend[w \in Words] ==
    IF Len(w) >= 80 THEN w
    ELSE LET n == Len(w) + 1
         IN  sha1Extend[Append(w,
                 rotateLeft[Xor32[Xor32[w[n - 3], w[n - 8]],
                                  Xor32[w[n - 14], w[n - 16]]], 1])]

sha1F(i, b, c, d) ==
    IF i < 20 THEN Or32[And32[b, c], And32[Not32[b], d]]
    ELSE IF i < 40 THEN Xor32[Xor32[b, c], d]
    ELSE IF i < 60 THEN Or32[Or32[And32[b, c], And32[b, d]], And32[c, d]]
    ELSE Xor32[Xor32[b, c], d]

sha1K(i) ==
    IF i < 20 THEN <<23170, 31129>>
    ELSE IF i < 40 THEN <<28377, 60321>>
    ELSE IF i < 60 THEN <<36635, 48348>>
    ELSE <<51810, 49622>>

\* One round of the main loop on the registers s = <<a, b, c, d, e>>.
sha1Round[i \in 0..79, s \in Words, w \in Words] ==
    << add32[add32[rotateLeft[s[1], 5], sha1F(i, s[2], s[3], s[4])],
             add32[add32[s[5], w[i + 1]], sha1K(i)]],
       s[1], rotateLeft[s[2], 30], s[3], s[4] >>

\* for (let i = 0; i < 80; i++) { ... }
sha1Rounds[i \in 0..80, s \in Words, w \in Words] ==
    IF i < 80 THEN sha1Rounds[i + 1, sha1Round[i, s, w], w] ELSE s

\* h[0] = add32(h[0], a); ... h[4] = add32(h[4], e);
sha1Add[h \in Words, s \in Words] == [j \in 1..5 |-> add32[h[j], s[j]]]

\* One 64-byte chunk: the new h.
sha1Chunk[h \in Words, padded \in Bytes, chunk \in Nat] ==
    sha1Add[h, sha1Rounds[0, h,
                sha1Extend[[i \in 1..16 |->
                               getUint32(padded, chunk + ((i - 1) * 4))]]]]

\* for (let chunk = 0; chunk < paddedData.length; chunk += 64) { ... }
sha1Chunks[h \in Words, padded \in Bytes, chunk \in Nat] ==
    IF chunk >= Len(padded) THEN h
    ELSE sha1Chunks[sha1Chunk[h, padded, chunk], padded, chunk + 64]

\* Convert to bytes.
sha1Result[h \in Words] ==
    wordBytes(h[1]) \o wordBytes(h[2]) \o wordBytes(h[3])
        \o wordBytes(h[4]) \o wordBytes(h[5])

sha1(data) == sha1Result[sha1Chunks[H0, sha1Pad[data], 0]]

(***************************************************************************)
(* hmac(key, data)                                                         *)
(***************************************************************************)
blockSize == 64

\* if (key.length > blockSize) key = this.sha1(key);
hmacHashedKey[key \in Bytes] ==
    IF Len(key) > blockSize THEN sha1(key) ELSE key

\* if (key.length < blockSize) { newKey.set(key); key = newKey; }
hmacPaddedKey[key \in Bytes] ==
    IF Len(key) < blockSize THEN key \o Zeros(blockSize - Len(key)) ELSE key

\* oKeyPad, iKeyPad, innerHash and the outer hash, on the key of blockSize
\* bytes.
hmacBlocks[key \in Bytes, data \in Bytes] ==
    sha1([i \in 1..blockSize |-> Xor8(key[i], 92)]
            \o sha1([i \in 1..blockSize |-> Xor8(key[i], 54)] \o data))

\* hmac with the two pads exchanged (0x36 outside, 0x5c inside): the variant
\* the RFC 4226 vectors tell from hmac.
hmacPadsExchanged(key, data) ==
    LET k == hmacPaddedKey[hmacHashedKey[key]]
    IN  sha1([i \in 1..blockSize |-> Xor8(k[i], 54)]
                \o sha1([i \in 1..blockSize |-> Xor8(k[i], 92)] \o data))

hmac(key, data) == hmacBlocks[hmacPaddedKey[hmacHashedKey[key]], data]

(***************************************************************************)
(* base32Decode(encoded)                                                   *)
(***************************************************************************)
alphabet ==
    << "A", "B", "C", "D", "E", "F", "G", "H", "I", "J", "K", "L", "M",
       "N", "O", "P", "Q", "R", "S", "T", "U", "V", "W", "X", "Y", "Z",
       "2", "3", "4", "5", "6", "7" >>

LowerCase ==
    << "a", "b", "c", "d", "e", "f", "g", "h", "i", "j", "k", "l", "m",
       "n", "o", "p", "q", "r", "s", "t", "u", "v", "w", "x", "y", "z" >>

\* alphabet.indexOf(char): the 0-based position, -1 when absent.
indexOf(char) ==
    IF \E i \in 1..Len(alphabet) : alphabet[i] = char
    THEN (CHOOSE i \in 1..Len(alphabet) : alphabet[i] = char) - 1
    ELSE -1

\* String.prototype.toUpperCase on ASCII characters: a lower-case letter
\* becomes its capital, every other character is kept.
toUpperCase[str \in String] ==
    [i \in 1..Len(str) |->
        IF \E j \in 1..Len(LowerCase) : LowerCase[j] = str[i]
        THEN alphabet[CHOOSE j \in 1..Len(LowerCase) : LowerCase[j] = str[i]]
        ELSE str[i]]

\* encoded.replace(/=+$/, ''): the trailing run of '=' is removed.
stripPadding[str \in String] ==
    IF Len(str) > 0 /\ str[Len(str)] = "="
    THEN stripPadding[SubSeq(str, 1, Len(str) - 1)]
    ELSE str

Base32State == Nat \X Word \X Bytes

\* One iteration of the for-of loop on st = <<bits, value, decoded>>; value
\* is the 32-bit pattern the operators << and | leave in the variable.
base32Step[st \in Base32State, char \in STRING] ==
    LET index == indexOf(char)
        value == Or32[ShiftLeft32[st[2], 5], <<0, index>>]
        bits == st[1] + 5
    IN  IF index = -1 THEN st
        ELSE IF bits >= 8
        THEN << bits - 8, value,
                Append(st[3], And32[ShiftRightU32[value, bits - 8], <<0, 255>>][2]) >>
        ELSE <<bits, value, st[3]>>

\* for (const char of cleanInput) { ... }
base32Loop[cleanInput \in String, i \in Nat, st \in Base32State] ==
    IF i <= Len(cleanInput)
    THEN base32Loop[cleanInput, i + 1, base32Step[st, cleanInput[i]]]
    ELSE st

\* base32Decode without toUpperCase: a lower-case letter is skipped.
base32DecodeCaseSensitive(encoded) ==
    base32Loop[stripPadding[encoded], 1, <<0, <<0, 0>>, <<>> >>][3]

base32Decode(encoded) ==
    base32Loop[toUpperCase[stripPadding[encoded]], 1, <<0, <<0, 0>>, <<>> >>][3]

(***************************************************************************)
(* intToBytes(value).  value is <<hi, lo>>: hi * 2^24 + lo.                *)
(***************************************************************************)
TwoTo24 == 2 ^ 24

Number == Int \X Nat

\* The number n as <<hi, lo>>.
Num(n) == <<n \div TwoTo24, n % TwoTo24>>

\* ToInt32 of a number, as a 32-bit word: the number modulo 2^32.
ToInt32(value) ==
    << ((value[1] % 256) * 256) + (value[2] \div 65536), value[2] % 65536 >>

\* value & 0xff
AndFF(value) == And32[ToInt32(value), <<0, 255>>][2]

\* Math.floor(value / 256): exact on a double below 2^53 in size.
FloorDiv256(value) ==
    << value[1] \div 256, ((value[1] % 256) * 65536) + (value[2] \div 256) >>

\* for (let i = 7; i >= 0; i--) { result[i] = value & 0xff; value = ... }
intToBytesLoop[value \in Number, i \in -1..7, result \in Bytes] ==
    IF i >= 0
    THEN intToBytesLoop[FloorDiv256(value), i - 1,
                        [result EXCEPT ![i + 1] = AndFF(value)]]
    ELSE result

\* intToBytes on the 32-bit pattern of value (value >>> 0) alone: the bits
\* from 2^32 up are lost.
intToBytesUint32(value) == intToBytesLoop[<<value[1] % 256, value[2]>>, 7, Zeros(8)]

intToBytes(value) == intToBytesLoop[value, 7, Zeros(8)]

(***************************************************************************)
(* Number.prototype.toString and String.prototype.padStart                 *)
(***************************************************************************)
DigitChars == <<"0", "1", "2", "3", "4", "5", "6", "7", "8", "9">>

\* n.toString() for an integer n >= 0.
toString[n \in Nat] ==
    IF n < 10 THEN <<DigitChars[n + 1]>>
    ELSE Append(toString[n \div 10], DigitChars[(n % 10) + 1])

\* str.padStart(targetLength, padChar)
padStart[str \in String, targetLength \in Int, padChar \in STRING] ==
    IF Len(str) >= targetLength THEN str
    ELSE [i \in 1..(targetLength - Len(str)) |-> padChar] \o str

(***************************************************************************)
(* The bounded inputs.                                                     *)
(***************************************************************************)
\* Base32 of the 20 bytes "12345678901234567890" (RFC 4226, Appendix D).
RFCSecret ==
    << "G", "E", "Z", "D", "G", "N", "B", "V", "G", "Y", "3", "T", "Q", "O",
       "J", "Q", "G", "E", "Z", "D", "G", "N", "B", "V", "G", "Y", "3", "T",
       "Q", "O", "J", "Q" >>

\* A 10-byte secret written in lower case, with a separator and padding.
OtherSecret ==
    << "j", "b", "s", "w", "y", "3", "d", "p", "-", "e", "h", "p", "k", "3",
       "p", "x", "p", "=" >>

Secrets == <<RFCSecret, OtherSecret>>

\* generateHOTP is called with the counters 0..MaxCounter.
MaxCounter == 9

\* verify is called with the windows -1..MaxWindow.
MaxWindow == 2

\* The calls made on one instance, one after the other.
MaxCalls == 2

\* options.digits, options.period and options.algorithm as given to the
\* constructor; 0 and "" also stand for an option that is not given (all
\* three are falsy).  Negative digits are not drawn: 10^digits is fractional
\* there.
DigitsOptions == {0, 1, 6, 8}

PeriodOptions == {0, 60, -30}

AlgorithmOptions == {"", "SHA-256"}

\* Timestamps in milliseconds.
Timestamps ==
    { -30000, -1, 0, 29999, 30000, 60000, 89999, 90000 }

(***************************************************************************)
(* class TOTP                                                              *)
(***************************************************************************)
\* constructor(secret, options): a || b is b when a is falsy.
constructor(secret, options) ==
    [ secret    |-> secret,
      digits    |-> IF options.digits = 0 THEN 6 ELSE options.digits,
      period    |-> IF options.period = 0 THEN 30 ELSE options.period,
      algorithm |-> IF options.algorithm = "" THEN "SHA-1" ELSE options.algorithm ]

\* Math.floor(a / b) for integers a and b # 0.
FloorDiv(a, b) == IF b > 0 THEN a \div b ELSE (-a) \div (-b)

\* a % b of JavaScript for integers a and b # 0: the sign is a's.
JsRem(a, b) ==
    LET m == IF b > 0 THEN b ELSE -b
    IN  IF a >= 0 THEN a % m ELSE -((-a) % m)

\* Math.floor(timestamp / 1000 / this.period)
counterAt(this, timestamp) == FloorDiv(timestamp, 1000 * this.period)

\* TLC evaluates base32Decode of the secrets and hmac of the counters
\* -MaxCounter..MaxCounter once, in these tables; every other input is
\* computed where it is used.
DecodedSecrets == [i \in 1..Len(Secrets) |-> base32Decode(Secrets[i])] \o <<>>

CounterBuffers ==
    [j \in 1..((2 * MaxCounter) + 1) |-> intToBytes(Num(j - 1 - MaxCounter))] \o <<>>

HmacTable ==
    [i \in 1..Len(Secrets) |->
        [j \in 1..Len(CounterBuffers) |->
            hmac(DecodedSecrets[i], CounterBuffers[j])] \o <<>>] \o <<>>

\* this.base32Decode(this.secret)
decodeSecret(encoded) ==
    IF \E i \in 1..Len(Secrets) : Secrets[i] = encoded
    THEN DecodedSecrets[CHOOSE i \in 1..Len(Secrets) : Secrets[i] = encoded]
    ELSE base32Decode(encoded)

\* this.hmac(key, counterBuffer)
hmacOf[key \in Bytes, data \in Bytes] ==
    IF /\ \E i \in 1..Len(Secrets) : DecodedSecrets[i] = key
       /\ \E j \in 1..Len(CounterBuffers) : CounterBuffers[j] = data
    THEN HmacTable[CHOOSE i \in 1..Len(Secrets) : DecodedSecrets[i] = key]
                  [CHOOSE j \in 1..Len(CounterBuffers) : CounterBuffers[j] = data]
    ELSE hmac(key, data)

\* const offset = hmac[hmac.length - 1] & 0x0f;
truncOffset(mac) == And16(mac[Len(mac)], 15)

\* const code = ((hmac[offset] & 0x7f) << 24) | ((hmac[offset + 1] & 0xff) << 16)
\*            | ((hmac[offset + 2] & 0xff) << 8) | (hmac[offset + 3] & 0xff);
\* as a number: the top bit of the word is clear.
truncCode[mac \in Bytes] ==
    LET offset == truncOffset(mac)
        word == Or32[Or32[ShiftLeft32[<<0, And16(mac[offset + 1], 127)>>, 24],
                          ShiftLeft32[<<0, And16(mac[offset + 2], 255)>>, 16]],
                     Or32[ShiftLeft32[<<0, And16(mac[offset + 3], 255)>>, 8],
                          <<0, And16(mac[offset + 4], 255)>>]]
    IN  (word[1] * 65536) + word[2]

\* (code % Math.pow(10, this.digits)).toString(): no padStart.
dynamicTruncationUnpadded(mac, digits) ==
    toString[truncCode[mac] % (10 ^ digits)]

\* The dynamic truncation and the return statement of generateHOTP, for
\* 1 <= digits <= 9.
dynamicTruncation(mac, digits) ==
    padStart[toString[truncCode[mac] % (10 ^ digits)], digits, "0"]

\* generateHOTP(counter)
generateHOTP(this, counter) ==
    dynamicTruncation(hmacOf[decodeSecret(this.secret), intToBytes(counter)],
                      this.digits)

\* generate(timestamp)
generate(this, timestamp) ==
    generateHOTP(this, Num(counterAt(this, timestamp)))

\* for (let i = -window; i <= window; i++) { ... return true ... } return false
RECURSIVE verifyLoop(_, _, _, _, _)
verifyLoop(this, token, window, currentCounter, i) ==
    IF i <= window
    THEN IF generateHOTP(this, Num(currentCounter + i)) = token
         THEN TRUE
         ELSE verifyLoop(this, token, window, currentCounter, i + 1)
    ELSE FALSE

\* verify with the loop condition i < window: the last counter is not tried.
verifyShort(this, token, window, timestamp) ==
    verifyLoop(this, token, window - 1, counterAt(this, timestamp), -window)

\* verify with the loop condition i <= window + 1: one more counter is tried.
verifyLong(this, token, window, timestamp) ==
    verifyLoop(this, token, window + 1, counterAt(this, timestamp), -window)

\* verify(token, window, timestamp)
verify(this, token, window, timestamp) ==
    verifyLoop(this, token, window, counterAt(this, timestamp), -window)

\* getRemainingSeconds(timestamp)
getRemainingSeconds(this, timestamp) ==
    this.period - JsRem(FloorDiv(timestamp, 1000), this.period)

(***************************************************************************)
(* The state: one TOTP instance and the call in progress on it.            *)
(***************************************************************************)
VARIABLES
    this,   \* the instance: [secret, digits, period, algorithm]
    ctor,   \* the arguments its constructor was called with
    pc,     \* "idle": no call in progress; "called": the arguments are bound;
            \* "returned": the call has returned ret
    call,   \* the method called and its arguments
    ret,    \* the value the call returned
    calls   \* the number of calls that have returned to the caller

vars == <<this, ctor, pc, call, ret, calls>>

NoCall == [op |-> "none", args |-> <<>>]

\* new TOTP(secret, options)
Construct(secret, options) ==
    /\ ctor = [secret |-> secret, options |-> options]
    /\ this = constructor(secret, options)
    /\ pc = "idle"
    /\ call = NoCall
    /\ ret = <<>>
    /\ calls = 0

Init ==
    \E i \in 1..Len(Secrets), d \in DigitsOptions, p \in PeriodOptions,
       a \in AlgorithmOptions :
        Construct(Secrets[i], [digits |-> d, period |-> p, algorithm |-> a])

\* A method call that runs to its return: the fields are only read.
Returns(op, args, value) ==
    /\ pc = "idle"
    /\ calls < MaxCalls
    /\ pc' = "returned"
    /\ call' = [op |-> op, args |-> args]
    /\ ret' = value
    /\ UNCHANGED <<this, ctor, calls>>

\* generate with an assignment among its statements: this.period *= 1000.
GenerateAssigning(timestamp) ==
    /\ pc = "idle"
    /\ calls < MaxCalls
    /\ pc' = "returned"
    /\ call' = [op |-> "generate", args |-> <<timestamp>>]
    /\ ret' = generate(this, timestamp)
    /\ this' = [this EXCEPT !.period = this.period * 1000]
    /\ UNCHANGED <<ctor, calls>>

Generate(timestamp) ==
    Returns("generate", <<timestamp>>, generate(this, timestamp))

GenerateHOTP(counter) ==
    Returns("generateHOTP", <<counter>>, generateHOTP(this, Num(counter)))

\* The tokens verify is called with: codes of this instance and two strings
\* that are no code of it.
Tokens ==
    {generateHOTP(this, Num(c)) : c \in 0..2} \cup {<<>>, <<"0", "0", "x">>}

Verify(token, window, timestamp) ==
    Returns("verify", <<token, window, timestamp>>,
            verify(this, token, window, timestamp))

GetRemainingSeconds(timestamp) ==
    Returns("getRemainingSeconds", <<timestamp>>,
            getRemainingSeconds(this, timestamp))

\* The caller takes the result; the instance is ready for the next call.
Return ==
    /\ pc = "returned"
    /\ call.op \in {"generate", "generateHOTP", "verify", "getRemainingSeconds"}
    /\ pc' = "idle"
    /\ call' = NoCall
    /\ ret' = <<>>
    /\ calls' = calls + 1
    /\ UNCHANGED <<this, ctor>>

Next ==
    \/ \E t \in Timestamps : Generate(t)
    \/ \E c \in 0..MaxCounter : GenerateHOTP(c)
    \/ \E token \in Tokens, w \in -1..MaxWindow, t \in Timestamps :
           Verify(token, w, t)
    \/ \E t \in Timestamps : GetRemainingSeconds(t)
    \/ Return

Spec == Init /\ [][Next]_vars

(***************************************************************************)
(* base32Decode on its own: the argument is drawn, the call returns.       *)
(***************************************************************************)
\* The instance new TOTP(RFCSecret, {digits}).
Instance(digits) ==
    /\ ctor = [secret |-> RFCSecret,
               options |-> [digits |-> digits, period |-> 0, algorithm |-> ""]]
    /\ this = constructor(ctor.secret, ctor.options)
    /\ ret = <<>>
    /\ calls = 0

\* A call of a byte-level method with its argument bound.
Called(op, args) ==
    /\ pc = "called"
    /\ call = [op |-> op, args |-> args]

\* The body of the byte-level method op runs to its return.
Body(op, value) ==
    /\ pc = "called"
    /\ call.op = op
    /\ pc' = "returned"
    /\ ret' = value
    /\ UNCHANGED <<this, ctor, call, calls>>

\* Heads of the encoded strings: none; seven times '7', 35 one bits, which
\* overflow the 32-bit accumulator; the first eight characters of RFCSecret.
Base32Heads ==
    { <<>>,
      <<"7", "7", "7", "7", "7", "7", "7">>,
      SubSeq(RFCSecret, 1, 8) }

\* The characters of the tails: two of the alphabet, a lower-case letter,
\* the padding character and two characters that are not in the alphabet.
Base32Chars == {"A", "7", "k", "=", "-", "1"}

\* The tails are the strings of at most MaxTail characters.
MaxTail == 2

Base32Tails == UNION { [1..n -> Base32Chars] : n \in 0..MaxTail }

Base32Inputs == { head \o tail : head \in Base32Heads, tail \in Base32Tails }

InitB32 ==
    /\ Instance(0)
    /\ \E encoded \in Base32Inputs : Called("base32Decode", <<encoded>>)

Base32Decode == Body("base32Decode", base32Decode(call.args[1]))

NextB32 == Base32Decode

SpecB32 == InitB32 /\ [][NextB32]_vars

(***************************************************************************)
(* The dynamic truncation of generateHOTP on its own, on 20-byte digests.  *)
(***************************************************************************)
\* this.digits
TruncDigits == 1..9

\* hmac[19]: every offset, with the high nibble clear and set.
TruncLast == { offset + (16 * high) : offset \in 0..15, high \in {0, 15} }

\* hmac[offset]: the top bit clear and set.
TruncFirst == {0, 127, 128, 255}

\* hmac[offset + 1], hmac[offset + 2], hmac[offset + 3]
TruncRest == { <<0, 0, 0>>, <<0, 0, 1>>, <<18, 52, 86>>, <<255, 255, 255>> }

\* The digest with last byte `last` and the four bytes at its offset given.
Digest(last, first, rest) ==
    LET offset == last % 16
    IN  [i \in 1..20 |->
            IF i = 20 THEN last
            ELSE IF i = offset + 1 THEN first
            ELSE IF i \in (offset + 2)..(offset + 4) THEN rest[i - offset - 1]
            ELSE (i * 37) % 256]

InitTrunc ==
    /\ \E digits \in TruncDigits : Instance(digits)
    /\ \E last \in TruncLast, first \in TruncFirst, rest \in TruncRest :
           Called("dynamicTruncation", <<Digest(last, first, rest)>>)

DynamicTruncation ==
    Body("dynamicTruncation", dynamicTruncation(call.args[1], this.digits))

NextTrunc == DynamicTruncation

SpecTrunc == InitTrunc /\ [][NextTrunc]_vars

(***************************************************************************)
(* intToBytes on its own, on counters below 2^53.                          *)
(***************************************************************************)
\* counter = hi * 2^24 + lo: hi below 2^29.  hi = 256 is 2^32.
CounterHi == {0, 1, 255, 256, 257, 65535, 65536, TwoTo24 - 1, TwoTo24, (2 ^ 29) - 1}

CounterLo == {0, 1, 255, 256, 65535, 65536, TwoTo24 - 2, TwoTo24 - 1}

InitBytes ==
    /\ Instance(0)
    /\ \E hi \in CounterHi, lo \in CounterLo : Called("intToBytes", <<hi, lo>>)

IntToBytes == Body("intToBytes", intToBytes(call.args))

NextBytes == IntToBytes

SpecBytes == InitBytes /\ [][NextBytes]_vars

(***************************************************************************)
(* The properties.                                                         *)
(***************************************************************************)
\* The 20 ASCII bytes "12345678901234567890".
RFCKey ==
    << 49, 50, 51, 52, 53, 54, 55, 56, 57, 48,
       49, 50, 51, 52, 53, 54, 55, 56, 57, 48 >>

\* RFC 4226, Appendix D: the HOTP values of the counters 0..9.
RFCCodes ==
    << <<"7", "5", "5", "2", "2", "4">>,
       <<"2", "8", "7", "0", "8", "2">>,
       <<"3", "5", "9", "1", "5", "2">>,
       <<"9", "6", "9", "4", "2", "9">>,
       <<"3", "3", "8", "3", "1", "4">>,
       <<"2", "5", "4", "6", "7", "6">>,
       <<"2", "8", "7", "9", "2", "2">>,
       <<"1", "6", "2", "5", "8", "3">>,
       <<"3", "9", "9", "8", "7", "1">>,
       <<"5", "2", "0", "4", "8", "9">> >>

ReturnedFrom(op) == pc = "returned" /\ call.op = op

\* C1: on an instance with digits = 6 whose secret decodes to the bytes
\* "12345678901234567890", generateHOTP(counter) returns the RFC 4226
\* Appendix D code of the counter, for every counter in 0..9 ("755224" for 0,
\* "287082" for 1).
C1_HOTPMatchesRFC4226 ==
    (/\ ReturnedFrom("generateHOTP")
     /\ this.digits = 6
     /\ base32Decode(this.secret) = RFCKey
     /\ call.args[1] \in 0..9)
        => ret = RFCCodes[call.args[1] + 1]

\* generateHOTP(9) has returned "520489" on the RFC secret with six digits.
C1_Witness ==
    /\ ReturnedFrom("generateHOTP")
    /\ this.digits = 6
    /\ this.secret = RFCSecret
    /\ call.args = <<9>>
    /\ ret = <<"5", "2", "0", "4", "8", "9">>

\* C2: verify(token, window, timestamp) returns a boolean, true exactly when
\* token equals generateHOTP(c + i) for some i in -window..window, with
\* c = floor(timestamp / 1000 / period); so the token of generate(t0) is
\* accepted at every timestamp whose counter is within window of t0's.
C2_VerifyIffCodeInWindow ==
    ReturnedFrom("verify") =>
        LET token == call.args[1]
            window == call.args[2]
            c == counterAt(this, call.args[3])
        IN  /\ ret \in BOOLEAN
            /\ ret <=> \E i \in (-window)..window :
                           generateHOTP(this, Num(c + i)) = token
            /\ \A t0 \in Timestamps :
                   (/\ token = generate(this, t0)
                    /\ (counterAt(this, t0) - c) \in (-window)..window)
                       => ret = TRUE

\* verify with window 2 has accepted a six-digit token generated two
\* counters before the counter of its timestamp.
C2_Witness ==
    /\ ReturnedFrom("verify")
    /\ this.digits = 6
    /\ call.args[2] = 2
    /\ \E t0 \in Timestamps :
           /\ call.args[1] = generate(this, t0)
           /\ counterAt(this, t0) = counterAt(this, call.args[3]) - 2
    /\ ret = TRUE

\* verify has returned for window >= 0 on a token that is the code of the
\* counter window + 1 before or after the counter of its timestamp.
VerifiedJustOutside ==
    /\ ReturnedFrom("verify")
    /\ call.args[2] >= 0
    /\ LET c == counterAt(this, call.args[3])
           d == call.args[2] + 1
       IN  \/ call.args[1] = generateHOTP(this, Num(c - d))
           \/ call.args[1] = generateHOTP(this, Num(c + d))

\* C3 as stated: a token generated for counter c is rejected by verify at a
\* timestamp whose counter is c + (window + 1) or c - (window + 1).
C3_RejectedJustOutside ==
    VerifiedJustOutside => ret = FALSE

\* C3, amended: such a token is rejected provided no counter of the window
\* has the same code.
C3_RejectedUnlessCodeRepeats ==
    (/\ VerifiedJustOutside
     /\ \A i \in (-call.args[2])..call.args[2] :
            generateHOTP(this, Num(counterAt(this, call.args[3]) + i))
                # call.args[1])
        => ret = FALSE

\* verify with window 1 has rejected the six-digit code of the counter two
\* after the counter of its timestamp.
C3_Witness ==
    /\ VerifiedJustOutside
    /\ this.digits = 6
    /\ call.args[2] = 1
    /\ call.args[1] =
           generateHOTP(this, Num(counterAt(this, call.args[3]) + 2))
    /\ ret = FALSE

\* C4 as stated: getRemainingSeconds(timestamp) returns
\* period - (floor(timestamp / 1000) mod period), an integer in 1..period.
C4_RemainingSecondsInRange ==
    ReturnedFrom("getRemainingSeconds") =>
        /\ this.period > 0
        /\ ret = this.period - ((call.args[1] \div 1000) % this.period)
        /\ ret \in 1..this.period

\* C5 as stated: no instance with a non-positive digits or period is ever
\* produced.
C5_PositiveConfiguration ==
    this.digits > 0 /\ this.period > 0

\* The result of the call c on an instance with the given fields.
ResultOf(fields, c) ==
    CASE c.op = "generate" -> generate(fields, c.args[1])
      [] c.op = "generateHOTP" -> generateHOTP(fields, Num(c.args[1]))
      [] c.op = "verify" -> verify(fields, c.args[1], c.args[2], c.args[3])
      [] c.op = "getRemainingSeconds" -> getRemainingSeconds(fields, c.args[1])

\* C7: after any sequence of calls the fields are those the constructor
\* set, and the result of a call is the one its arguments have on those
\* fields, whatever calls were made before.
C7_FieldsAsConstructed ==
    /\ this = constructor(ctor.secret, ctor.options)
    /\ pc = "returned" =>
           ret = ResultOf(constructor(ctor.secret, ctor.options), call)

\* A second call, of verify, has returned on an instance with eight digits
\* and a period of 60 seconds.
C7_Witness ==
    /\ ReturnedFrom("verify")
    /\ calls = 1
    /\ this.digits = 8
    /\ this.period = 60
    /\ ret = TRUE

\* C8 as stated: getRemainingSeconds(t + 1000) is getRemainingSeconds(t) - 1
\* when getRemainingSeconds(t) > 1 and period when it is 1, and it is 1
\* exactly when the counter of generate is one more at t + 1000.
C8_CountsDownAndWraps ==
    ReturnedFrom("getRemainingSeconds") =>
        LET t == call.args[1]
            later == getRemainingSeconds(this, t + 1000)
        IN  /\ ret > 1 => later = ret - 1
            /\ ret = 1 => later = this.period
            /\ ret = 1 <=> counterAt(this, t + 1000) = counterAt(this, t) + 1

\* The value of a string of decimal digits.
DecimalValue[str \in String] ==
    IF str = <<>> THEN 0
    ELSE (10 * DecimalValue[SubSeq(str, 1, Len(str) - 1)])
             + ((CHOOSE d \in 1..10 : DigitChars[d] = str[Len(str)]) - 1)

\* The four bytes at mac[19] mod 16, big-endian, the top bit dropped.
TruncatedValue(mac) ==
    LET offset == mac[20] % 16
    IN  ((mac[offset + 1] % 128) * 16777216) + (mac[offset + 2] * 65536)
            + (mac[offset + 3] * 256) + mac[offset + 4]

\* C6: for a 20-byte digest and digits in 1..9 the offset hmac[19] & 0x0f is
\* in 0..15, the four bytes at it are inside the digest, the truncated value
\* is in 0..2^31-1, and the code is a string of exactly digits decimal
\* characters whose value is the truncated value mod 10^digits.
C6_TruncationIsPaddedDecimal ==
    ReturnedFrom("dynamicTruncation") =>
        LET mac == call.args[1]
            offset == truncOffset(mac)
        IN  /\ offset = mac[20] % 16
            /\ offset \in 0..15
            /\ offset + 4 <= Len(mac)
            /\ truncCode[mac] = TruncatedValue(mac)
            /\ truncCode[mac] \in 0..2147483647
            /\ Len(ret) = this.digits
            /\ \A i \in 1..Len(ret) : \E d \in 1..10 : DigitChars[d] = ret[i]
            /\ DecimalValue[ret] = TruncatedValue(mac) % (10 ^ this.digits)

\* Eight digits of a digest whose offset is 15 and whose bytes there are
\* 0x80 0x00 0x00 0x00: the top bit is dropped and the code is eight zeros.
C6_Witness ==
    /\ ReturnedFrom("dynamicTruncation")
    /\ this.digits = 8
    /\ call.args[1][20] = 255
    /\ call.args[1][16] = 128
    /\ ret = <<"0", "0", "0", "0", "0", "0", "0", "0">>

\* The alphabet indices of the characters of str that are in the alphabet.
ValidIndices[str \in String] ==
    IF str = <<>> THEN <<>>
    ELSE (IF indexOf(Head(str)) >= 0 THEN <<indexOf(Head(str))>> ELSE <<>>)
             \o ValidIndices[Tail(str)]

\* Bit j (from 0) of the concatenation of the 5-bit indices.
IndexBit(indices, j) ==
    (indices[(j \div 5) + 1] \div (2 ^ (4 - (j % 5)))) % 2

\* Byte k (from 0) of that bit string.
IndexByte(indices, k) ==
      (IndexBit(indices, 8 * k) * 128) + (IndexBit(indices, (8 * k) + 1) * 64)
    + (IndexBit(indices, (8 * k) + 2) * 32) + (IndexBit(indices, (8 * k) + 3) * 16)
    + (IndexBit(indices, (8 * k) + 4) * 8) + (IndexBit(indices, (8 * k) + 5) * 4)
    + (IndexBit(indices, (8 * k) + 6) * 2) + IndexBit(indices, (8 * k) + 7)

\* The first floor(5n / 8) bytes of the bit string of the n valid characters
\* of encoded, its trailing '=' stripped and its letters made capitals.
BitStringBytes(encoded) ==
    LET indices == ValidIndices[toUpperCase[stripPadding[encoded]]]
    IN  [k \in 1..((5 * Len(indices)) \div 8) |-> IndexByte(indices, k - 1)]

\* str with char inserted after its first p characters.
Inserted(str, p, char) ==
    SubSeq(str, 1, p) \o <<char>> \o SubSeq(str, p + 1, Len(str))

\* str with its capital letters made lower-case.
Lowered(str) ==
    [i \in 1..Len(str) |->
        IF \E j \in 1..Len(LowerCase) : alphabet[j] = str[i]
        THEN LowerCase[CHOOSE j \in 1..Len(LowerCase) : alphabet[j] = str[i]]
        ELSE str[i]]

\* Characters that are not in the alphabet, in either case.
OutsideChars == {"-", "1", "="}

\* C9: base32Decode returns the first floor(5n / 8) bytes of the bit string
\* of the 5-bit indices of the n valid characters, also when the 32-bit
\* accumulator has overflowed; a character outside the alphabet inserted
\* anywhere, and a change of letter case, leave the result as it is.
C9_Base32IsBitString ==
    ReturnedFrom("base32Decode") =>
        LET encoded == call.args[1]
        IN  /\ ret = BitStringBytes(encoded)
            /\ \A p \in 0..Len(encoded), char \in OutsideChars :
                   base32Decode(Inserted(encoded, p, char)) = ret
            /\ base32Decode(Lowered(encoded)) = ret
            /\ base32Decode(toUpperCase[encoded]) = ret

\* Eight valid characters, the last one lower-case and followed by a '-':
\* 40 bits, five bytes, the last one decoded after the accumulator has
\* overflowed.
C9_Witness ==
    /\ ReturnedFrom("base32Decode")
    /\ call.args[1] = <<"7", "7", "7", "7", "7", "7", "7", "k", "-">>
    /\ ret = <<255, 255, 255, 255, 234>>

\* C10: for 0 <= counter < 2^53 intToBytes(counter) is eight bytes whose
\* big-endian value is counter, and generateHOTP computes its code from the
\* HMAC of these bytes.
C10_EightBytesBigEndian ==
    ReturnedFrom("intToBytes") =>
        /\ Len(ret) = 8
        /\ \A i \in 1..8 : ret[i] \in 0..255
        /\ ret[1] = 0
        /\ ret[2] < 32
        /\ (((((ret[2] * 256) + ret[3]) * 256) + ret[4]) * 256) + ret[5]
               = call.args[1]
        /\ (((ret[6] * 256) + ret[7]) * 256) + ret[8] = call.args[2]
        /\ generateHOTP(this, call.args)
               = dynamicTruncation(hmac(base32Decode(this.secret), ret),
                                   this.digits)

\* intToBytes(2^32 + 2^24 + 2^16) has returned 00 00 00 01 01 01 00 00.
C10_Witness ==
    /\ ReturnedFrom("intToBytes")
    /\ call.args = <<257, 65536>>
    /\ ret = <<0, 0, 0, 1, 1, 1, 0, 0>>

====
